---- MODULE Spec2Model ----
(***************************************************************************)
(* Model of simulador_auditor_sef_mg_react.jsx: the projection engine      *)
(* (projectScenario) and the scenario collection kept by the App component *)
(* (addScenario, updateScenario, removeScenario, selection), with its      *)
(* persistence to localStorage and its rehydration when the page loads.    *)
(*                                                                         *)
(* JavaScript numbers are modelled as exact rationals [n, d] in lowest     *)
(* terms (d > 0); strings are sequences of text chunks, a number being     *)
(* formatted into its decimal digits.                                      *)
(***************************************************************************)
EXTENDS Integers, Sequences, FiniteSets, TLC

VARIABLES
    thisYear,      \* module constant: new Date().getFullYear() at load
    arg,           \* projectScenario: the destructured argument
    t,             \* projectScenario: loop counter
    labels,        \* projectScenario: labels array
    grossSeries,   \* projectScenario: grossSeries array
    netSeries,     \* projectScenario: netSeries array
    pc,            \* projectScenario: "idle" | "loop" | "done"
    scenarios,     \* App state: scenarios
    selectedId,    \* App state: selectedId
    yearsGlobal,   \* App state: yearsGlobal
    now,           \* the millisecond clock read by Date.now()
    stored,        \* localStorage: what is held under "sim_scenarios_v1"
    status,        \* the page: "boot" | "running" | "error"
    last           \* history: the last handler run and the state it saw

engineVars == <<arg, t, labels, grossSeries, netSeries, pc>>
appVars == <<scenarios, selectedId, yearsGlobal, now, stored, status, last>>
vars == <<thisYear, arg, t, labels, grossSeries, netSeries, pc,
          scenarios, selectedId, yearsGlobal, now, stored, status, last>>

----------------------------------------------------------------------------
(* Bounds of the model *)

MaxYears == 3
MaxScenarios == 3
MaxClock == 1

----------------------------------------------------------------------------
(* Numbers: exact rational arithmetic standing for the JS operators *)

Abs(x) == IF x < 0 THEN -x ELSE x

RECURSIVE GCD(_, _)
GCD(a, b) == IF b = 0 THEN a ELSE GCD(b, a % b)

Num(n, d) ==
    LET g == GCD(Abs(n), d)
    IN [n |-> n \div g, d |-> d \div g]

Zero == Num(0, 1)

Neg(x) == [n |-> -x.n, d |-> x.d]

Add(x, y) ==
    LET l == (x.d \div GCD(x.d, y.d)) * y.d
    IN Num(x.n * (l \div x.d) + y.n * (l \div y.d), l)

Sub(x, y) == Add(x, Neg(y))

Mul(x, y) ==
    LET g1 == GCD(Abs(x.n), y.d)
        g2 == GCD(Abs(y.n), x.d)
    IN Num((x.n \div g1) * (y.n \div g2), (x.d \div g2) * (y.d \div g1))

Leq(x, y) ==
    LET l == (x.d \div GCD(x.d, y.d)) * y.d
    IN x.n * (l \div x.d) <= y.n * (l \div y.d)

Less(x, y) == Leq(x, y) /\ x # y

MathMax(x, y) == IF Leq(x, y) THEN y ELSE x

RECURSIVE MathPow(_, _)
MathPow(x, k) == IF k = 0 THEN Num(1, 1) ELSE Mul(x, MathPow(x, k - 1))

----------------------------------------------------------------------------
(* Strings *)

Digit(k) == <<"0", "1", "2", "3", "4", "5", "6", "7", "8", "9">>[k + 1]

\* String(n) for a non-negative integer n: its decimal digits
RECURSIVE String(_)
String(n) == IF n < 10 THEN <<Digit(n)>> ELSE String(n \div 10) \o <<Digit(n % 10)>>

DigitValue(c) == CHOOSE k \in 0..9 : Digit(k) = c

\* the number a string of decimal digits denotes
RECURSIVE Number(_)
Number(s) ==
    IF Len(s) = 0 THEN 0
    ELSE 10 * Number(SubSeq(s, 1, Len(s) - 1)) + DigitValue(s[Len(s)])

----------------------------------------------------------------------------
(* Constants of the source *)

LEVELS ==
    << [id |-> "A1", baseSalary |-> 9000, gepiPoints |-> 100],
       [id |-> "A2", baseSalary |-> 11000, gepiPoints |-> 120],
       [id |-> "B1", baseSalary |-> 13000, gepiPoints |-> 140],
       [id |-> "B2", baseSalary |-> 16000, gepiPoints |-> 165] >>

DEFAULT_YEARS == 30
DEFAULT_HELP_DAYS == 20
DEPENDENT_DEDUCTION == Num(18959, 100)
PREVID_PERCENT == Num(14, 100)
IR_FLAT_PERCENT == Num(15, 100)

thisYearChoices == {1999, 2026}

----------------------------------------------------------------------------
(* projectScenario: one iteration of the loop, for argument s and offset k *)

basicYear_linear(s, k) ==
    Mul(Mul(s.baseSalary, Add(Num(1, 1), Mul(s.basicAnnualPctReaj, Num(1, 100)))),
        Num(k, 1))

basicYear(s, k) ==
    Mul(s.baseSalary,
        MathPow(Add(Num(1, 1), Mul(s.basicAnnualPctReaj, Num(1, 100))), k))

gepiPointYear_minus(s, k) == Sub(s.gepiPointValue, Mul(s.gepiCentsAnnual, Num(k, 1)))

gepiPointYear(s, k) == Add(s.gepiPointValue, Mul(s.gepiCentsAnnual, Num(k, 1)))

gepiTotalYear(s, k) == Mul(gepiPointYear(s, k), s.gepiPoints)

viYear_rateGrowth(s, k) ==
    Add(Mul(Add(s.viPerHelpDay, Mul(s.viReajAnnual, Num(k, 1))), s.helpDays),
        Mul(s.viReajAnnual, Num(k, 1)))

viYear(s, k) ==
    Add(Mul(s.viPerHelpDay, s.helpDays), Mul(s.viReajAnnual, Num(k, 1)))

grossMonthly(s, k) == Add(Add(basicYear(s, k), gepiTotalYear(s, k)), viYear(s, k))

grossAnnual_monthly(s, k) == grossMonthly(s, k)

grossAnnual(s, k) == Mul(grossMonthly(s, k), Num(12, 1))

previd(s, k) == Mul(grossAnnual(s, k), PREVID_PERCENT)

deductionDependents(s) == Mul(Mul(s.dependents, DEPENDENT_DEDUCTION), Num(12, 1))

taxable(s, k) ==
    MathMax(Zero, Sub(Sub(grossAnnual(s, k), previd(s, k)), deductionDependents(s)))

ir(s, k) == Mul(taxable(s, k), IR_FLAT_PERCENT)

netAnnual_lessDependents(s, k) ==
    Sub(Sub(Sub(grossAnnual(s, k), previd(s, k)), ir(s, k)), deductionDependents(s))

netAnnual(s, k) == Sub(Sub(grossAnnual(s, k), previd(s, k)), ir(s, k))

LoopCond_exclusive(k, years) == k < years

\* the for loop's condition: t <= years
LoopCond(k, years) == k <= years

\* one pass through the loop body
Iterate ==
    /\ pc = "loop"
    /\ LoopCond(t, arg.years)
    /\ labels' = Append(labels, String(thisYear + t))
    /\ grossSeries' = Append(grossSeries, grossAnnual(arg, t))
    /\ netSeries' = Append(netSeries, netAnnual(arg, t))
    /\ t' = t + 1
    /\ UNCHANGED <<thisYear, arg, pc>>
    /\ UNCHANGED appVars

\* the loop ends and { labels, grossSeries, netSeries } is returned
Return ==
    /\ pc = "loop"
    /\ ~LoopCond(t, arg.years)
    /\ pc' = "done"
    /\ UNCHANGED <<thisYear, arg, t, labels, grossSeries, netSeries>>
    /\ UNCHANGED appVars

----------------------------------------------------------------------------
(* JSON.stringify and JSON.parse of the scenario collection *)

\* the keys of a scenario, in the order the object literals list them
fieldOrder ==
    <<"id", "name", "levelId", "dependents", "helpDays", "baseSalary",
      "gepiPointValue", "gepiPoints", "viPerHelpDay", "basicAnnualPctReaj",
      "gepiCentsAnnual", "viReajAnnual", "years", "color">>

stringFields == {"id", "name", "levelId", "color"}

\* the digits after the decimal point of r / d, for 0 <= r < d
RECURSIVE fraction(_, _)
fraction(r, d) ==
    IF r = 0 THEN <<>>
    ELSE <<Digit((r * 10) \div d)>> \o fraction((r * 10) % d, d)

\* a number as JSON.stringify writes it
numberToString(x) ==
    (IF x.n < 0 THEN <<"-">> ELSE <<>>)
        \o String(Abs(x.n) \div x.d)
        \o (IF Abs(x.n) % x.d = 0 THEN <<>>
            ELSE <<".">> \o fraction(Abs(x.n) % x.d, x.d))

RECURSIVE pow10(_)
pow10(k) == IF k = 0 THEN 1 ELSE 10 * pow10(k - 1)

\* the number JSON.parse reads from a number token
parseNumber(s) ==
    LET negative == Len(s) > 0 /\ s[1] = "-"
        body == IF negative THEN Tail(s) ELSE s
        dot == IF \E i \in DOMAIN body : body[i] = "."
               THEN CHOOSE i \in DOMAIN body : body[i] = "."
               ELSE 0
        whole == IF dot = 0 THEN body ELSE SubSeq(body, 1, dot - 1)
        decimals == IF dot = 0 THEN <<>> ELSE SubSeq(body, dot + 1, Len(body))
        magnitude == Add(Num(Number(whole), 1),
                         Num(Number(decimals), pow10(Len(decimals))))
    IN IF negative THEN Neg(magnitude) ELSE magnitude

\* the keys of object o, in order
keysOf(o) == SelectSeq(fieldOrder, LAMBDA f : f \in DOMAIN o)

\* one object of the collection as JSON text: its key/value pairs in order,
\* a string quoted as it is, a number written out in decimal
stringifyObject(o) ==
    LET keys == keysOf(o)
    IN [k \in DOMAIN keys |->
           <<keys[k], IF keys[k] \in stringFields
                      THEN [type |-> "string", text |-> o[keys[k]]]
                      ELSE [type |-> "number", text |-> numberToString(o[keys[k]])]>>]

\* JSON.stringify(scenarios): the items of the array text
JSONstringify(list) == [i \in DOMAIN list |-> stringifyObject(list[i])]

parseObject(pairs) ==
    [f \in {pairs[k][1] : k \in DOMAIN pairs} |->
        LET k == CHOOSE k \in DOMAIN pairs : pairs[k][1] = f
        IN IF pairs[k][2].type = "string"
           THEN pairs[k][2].text
           ELSE parseNumber(pairs[k][2].text)]

\* JSON.parse of an array text, from its items
JSONparse(items) == [i \in DOMAIN items |-> parseObject(items[i])]

\* what localStorage holds under the key: kind is "absent" (no entry),
\* "denied" (every access to localStorage throws), "empty" (the text ""),
\* "invalid" (a text that is not JSON), "null" (the text null), "object"
\* (the text {}) or "array" (an array text, with its items)
storedAs(kind, items) == [kind |-> kind, items |-> items]

effectStored_stale(list) == storedAs("array", JSONstringify(scenarios))

\* the useEffect on [scenarios]: setItem("sim_scenarios_v1", JSON.stringify(scenarios))
effectStored(list) == storedAs("array", JSONstringify(list))

----------------------------------------------------------------------------
(* App: the scenario collection *)

null == <<>>

atual == <<"atual">>

palette ==
    <<"#1f77b4", "#ff7f0e", "#2ca02c", "#d62728",
      "#9467bd", "#8c564b", "#e377c2", "#7f7f7f">>

pickColor(i) == palette[(i % Len(palette)) + 1]

\* the scenario the useState initializer builds when nothing is stored
defaultScenario ==
    [id |-> atual,
     name |-> <<"Cenário Atual">>,
     levelId |-> "A1",
     dependents |-> Zero,
     helpDays |-> Num(DEFAULT_HELP_DAYS, 1),
     baseSalary |-> Num(9000, 1),
     gepiPointValue |-> Num(20, 1),
     gepiPoints |-> Num(100, 1),
     viPerHelpDay |-> Num(15, 1),
     basicAnnualPctReaj |-> Zero,
     gepiCentsAnnual |-> Zero,
     viReajAnnual |-> Zero,
     years |-> Num(DEFAULT_YEARS, 1),
     color |-> "#1f77b4"]

\* scenarios[0]?.id ?? null
firstId(list) == IF Len(list) > 0 THEN list[1].id ELSE null

\* `c_${Date.now()}`
newId(ms) == <<"c_">> \o String(ms)

\* { ...it, ...patch }
merge(it, patch) ==
    [f \in DOMAIN it \cup DOMAIN patch |->
        IF f \in DOMAIN patch THEN patch[f] ELSE it[f]]

\* scenarios.filter((s) => s.id !== id)
RECURSIVE filterOut(_, _)
filterOut(list, id) ==
    IF Len(list) = 0 THEN <<>>
    ELSE IF list[1].id # id THEN <<list[1]>> \o filterOut(Tail(list), id)
    ELSE filterOut(Tail(list), id)

\* scenarios.find((s) => s.id === selectedId) ?? scenarios[0], as an index
\* (0 when the collection is empty)
selectedIndex ==
    IF \E i \in DOMAIN scenarios : scenarios[i].id = selectedId
    THEN CHOOSE i \in DOMAIN scenarios :
            /\ scenarios[i].id = selectedId
            /\ \A j \in 1..(i - 1) : scenarios[j].id # selectedId
    ELSE IF Len(scenarios) > 0 THEN 1 ELSE 0

noOp ==
    [op |-> "other", id |-> null, before |-> <<>>, beforeSel |-> null,
     raw |-> storedAs("absent", <<>>)]

addScenario ==
    /\ status = "running"
    /\ Len(scenarios) < MaxScenarios
    /\ LET id == newId(now)
           defaultLevel == LEVELS[1]
           sc == [id |-> id,
                  name |-> <<"Cenário ">> \o String(Len(scenarios) + 1),
                  levelId |-> defaultLevel.id,
                  dependents |-> Zero,
                  helpDays |-> Num(DEFAULT_HELP_DAYS, 1),
                  baseSalary |-> Num(defaultLevel.baseSalary, 1),
                  gepiPointValue |-> Num(20, 1),
                  gepiPoints |-> Num(defaultLevel.gepiPoints, 1),
                  viPerHelpDay |-> Num(15, 1),
                  basicAnnualPctReaj |-> Zero,
                  gepiCentsAnnual |-> Zero,
                  viReajAnnual |-> Zero,
                  years |-> Num(yearsGlobal, 1),
                  color |-> pickColor(Len(scenarios))]
       IN /\ scenarios' = Append(scenarios, sc)
          /\ selectedId' = id
    /\ stored' = effectStored(scenarios')
    /\ last' = noOp
    /\ UNCHANGED <<yearsGlobal, now, status, thisYear>>
    /\ UNCHANGED engineVars

updateScenario(id, patch) ==
    /\ scenarios' = [i \in DOMAIN scenarios |->
                        IF scenarios[i].id = id
                        THEN merge(scenarios[i], patch) ELSE scenarios[i]]
    /\ stored' = effectStored(scenarios')
    /\ last' = noOp
    /\ UNCHANGED <<selectedId, yearsGlobal, now, status, thisYear>>
    /\ UNCHANGED engineVars

\* the "Nível na carreira" select of the edit form
ChangeLevel ==
    /\ status = "running"
    /\ selectedIndex # 0
    /\ \E k \in {1, Len(LEVELS)} :
          LET lvl == LEVELS[k]
          IN updateScenario(scenarios[selectedIndex].id,
                            [levelId |-> lvl.id,
                             baseSalary |-> Num(lvl.baseSalary, 1),
                             gepiPoints |-> Num(lvl.gepiPoints, 1)])

removeScenario_keepsSelection(id) ==
    /\ scenarios' = filterOut(scenarios, id)
    /\ selectedId' = selectedId

removeScenario(id) ==
    LET next == filterOut(scenarios, id)
    IN /\ scenarios' = next
       /\ selectedId' = IF selectedId = id THEN firstId(next) ELSE selectedId

RemoverRendered_always(sc) == TRUE

\* the "Remover" button is rendered only for sc.id !== "atual"
RemoverRendered(sc) == sc.id # atual

\* the user goes to remove row i: its "Remover" button, where there is one
ClickRemover ==
    \E i \in DOMAIN scenarios :
        /\ status = "running"
        /\ IF RemoverRendered(scenarios[i])
           THEN /\ removeScenario(scenarios[i].id)
                /\ stored' = effectStored(scenarios')
           ELSE UNCHANGED <<scenarios, selectedId, stored>>
        /\ last' = [op |-> "remove", id |-> scenarios[i].id,
                    before |-> scenarios, beforeSel |-> selectedId,
                    raw |-> storedAs("absent", <<>>)]
        /\ UNCHANGED <<yearsGlobal, now, status, thisYear>>
        /\ UNCHANGED engineVars

\* a click on a scenario's name
Select ==
    \E i \in DOMAIN scenarios :
        /\ status = "running"
        /\ selectedId' = scenarios[i].id
        /\ last' = noOp
        /\ UNCHANGED <<scenarios, yearsGlobal, now, stored, status, thisYear>>
        /\ UNCHANGED engineVars

\* the useState initializer of scenarios, given what localStorage holds:
\* the default collection when the entry is absent or "" (raw is falsy) and
\* when getItem or JSON.parse throws (caught); otherwise whatever JSON.parse
\* returns, an array or not
initialScenarios(raw) ==
    CASE raw.kind = "array" -> [kind |-> "array", list |-> JSONparse(raw.items)]
      [] raw.kind \in {"null", "object"} -> [kind |-> raw.kind, list |-> <<>>]
      [] OTHER -> [kind |-> "array", list |-> <<defaultScenario>>]

\* the page is loaded (or reloaded): the useState initializers, the first
\* render and the first run of the persistence effect. The page ends in
\* "error" when scenarios[0] throws on null (the selectedId initializer),
\* when scenarios.map is not a function (the first render), or when the
\* effect's access to localStorage throws.
Startup ==
    /\ LET init == initialScenarios(stored)
       IN IF init.kind = "array"
          THEN /\ scenarios' = init.list
               /\ selectedId' = firstId(init.list)
               /\ IF stored.kind = "denied"
                  THEN status' = "error" /\ UNCHANGED stored
                  ELSE status' = "running" /\ stored' = effectStored(scenarios')
          ELSE /\ scenarios' = <<>>
               /\ selectedId' = null
               /\ status' = "error"
               /\ UNCHANGED stored
    /\ yearsGlobal' = DEFAULT_YEARS
    /\ last' = [op |-> "startup", id |-> null, before |-> scenarios,
                beforeSel |-> selectedId, raw |-> stored]
    /\ UNCHANGED <<now, thisYear>>
    /\ UNCHANGED engineVars

\* a millisecond passes
Tick ==
    /\ now < MaxClock
    /\ now' = now + 1
    /\ last' = noOp
    /\ UNCHANGED <<scenarios, selectedId, yearsGlobal, stored, status, thisYear>>
    /\ UNCHANGED engineVars

----------------------------------------------------------------------------
(* Specifications *)

AppInit ==
    /\ scenarios = <<defaultScenario>>
    /\ selectedId = firstId(<<defaultScenario>>)
    /\ yearsGlobal = DEFAULT_YEARS
    /\ now = 0
    /\ stored = effectStored(<<defaultScenario>>)
    /\ status = "running"
    /\ last = noOp

\* the scenario of the spec's worked example, over 1 year
exampleArg ==
    [baseSalary |-> Num(9000, 1), gepiPointValue |-> Num(20, 1),
     gepiPoints |-> Num(100, 1), viPerHelpDay |-> Num(15, 1),
     helpDays |-> Num(20, 1), dependents |-> Zero,
     basicAnnualPctReaj |-> Zero, gepiCentsAnnual |-> Zero,
     viReajAnnual |-> Zero, years |-> 1]

\* arguments projectScenario is called with: non-negative compensation
\* inputs, growth parameters of either sign
Args ==
    [baseSalary : {Zero, Num(1000, 1)},
     gepiPointValue : {Num(5, 2)},
     gepiPoints : {Zero, Num(3, 1)},
     viPerHelpDay : {Num(3, 2)},
     helpDays : {Zero, Num(2, 1)},
     dependents : {Zero, Num(1, 1), Num(2, 1)},
     basicAnnualPctReaj : {Num(-200, 1), Num(-50, 1), Zero, Num(50, 1)},
     gepiCentsAnnual : {Num(-1, 1), Zero, Num(1, 4)},
     viReajAnnual : {Num(-1, 1), Zero, Num(2, 1)},
     years : 0..MaxYears]
    \cup {exampleArg}

\* the App as constructed; projectScenario not running
Init ==
    /\ thisYear \in thisYearChoices
    /\ AppInit
    /\ arg = exampleArg
    /\ t = 0
    /\ labels = <<>>
    /\ grossSeries = <<>>
    /\ netSeries = <<>>
    /\ pc = "idle"

Next ==
    \/ addScenario
    \/ ChangeLevel
    \/ ClickRemover
    \/ Select
    \/ Tick
    \/ Startup

Spec == Init /\ [][Next]_vars

\* the default scenario as an earlier session may have left it, edited in
\* the form: point value 20.5, annual adjustment -2.5 %
editedScenario ==
    merge(defaultScenario,
          [gepiPointValue |-> Num(41, 2), basicAnnualPctReaj |-> Num(-5, 2)])

\* what localStorage may hold when the page is first loaded: nothing
\* readable, or the collection an earlier session stored
bootStored ==
    {storedAs(k, <<>>) : k \in {"absent", "denied", "empty", "invalid", "null", "object"}}
        \cup {effectStored(<<editedScenario>>)}

\* the page before it is loaded
StartInit ==
    /\ thisYear \in thisYearChoices
    /\ scenarios = <<>>
    /\ selectedId = null
    /\ yearsGlobal = DEFAULT_YEARS
    /\ now = 0
    /\ stored \in bootStored
    /\ status = "boot"
    /\ last = noOp
    /\ arg = exampleArg
    /\ t = 0
    /\ labels = <<>>
    /\ grossSeries = <<>>
    /\ netSeries = <<>>
    /\ pc = "idle"

StartSpec == StartInit /\ [][Next]_vars

\* a call of projectScenario, entered with its argument bound
ProjInit ==
    /\ thisYear \in thisYearChoices
    /\ AppInit
    /\ arg \in Args
    /\ t = 0
    /\ labels = <<>>
    /\ grossSeries = <<>>
    /\ netSeries = <<>>
    /\ pc = "loop"

ProjNext == Iterate \/ Return

ProjSpec == ProjInit /\ [][ProjNext]_vars

----------------------------------------------------------------------------
(* Properties of projectScenario (checked under ProjSpec) *)

offsets == DOMAIN grossSeries

growthNonNegative ==
    /\ Leq(Zero, arg.basicAnnualPctReaj)
    /\ Leq(Zero, arg.gepiCentsAnnual)
    /\ Leq(Zero, arg.viReajAnnual)

growthZero ==
    /\ arg.basicAnnualPctReaj = Zero
    /\ arg.gepiCentsAnnual = Zero
    /\ arg.viReajAnnual = Zero

\* what entry i of grossSeries holds, per month, beyond the grown base salary
\* and the bonus total: the per-diem allowance total
allowanceIn(i) ==
    Sub(Mul(grossSeries[i], Num(1, 12)),
        Add(basicYear(arg, i - 1), gepiTotalYear(arg, i - 1)))

\* C1: when projectScenario returns, labels, grossSeries and netSeries each
\* have exactly years + 1 elements, and the label at offset k reads as the
\* year thisYear + k.
C1_LengthsAndLabels ==
    pc = "done" =>
        /\ Len(labels) = arg.years + 1
        /\ Len(grossSeries) = arg.years + 1
        /\ Len(netSeries) = arg.years + 1
        /\ \A k \in 0..arg.years : Number(labels[k + 1]) = thisYear + k

C1_Witness ==
    /\ pc = "done"
    /\ arg.years = 0
    /\ thisYear = 2026
    /\ labels = << <<"2", "0", "2", "6">> >>
    /\ Len(grossSeries) = 1
    /\ Len(netSeries) = 1

\* C2: for the worked example (9000, 20.0 x 100, 15.0 x 20, no dependents,
\* no growth, years = 1) the result has two entries and the entry of year 0
\* is gross annual 135600 and net annual 99123.6.
C2_Example ==
    (pc = "done" /\ arg = exampleArg) =>
        /\ Len(labels) = 2
        /\ Len(grossSeries) = 2
        /\ Len(netSeries) = 2
        /\ grossSeries[1] = Num(135600, 1)
        /\ netSeries[1] = Num(991236, 10)

C2_Witness ==
    /\ pc = "done"
    /\ arg = exampleArg
    /\ Len(netSeries) = 2

\* C3 (as claimed): at every offset the net annual amount is at most the
\* gross annual amount, for non-negative compensation inputs and growth
\* parameters of either sign.
C3_NetLeqGross ==
    \A i \in offsets : Leq(netSeries[i], grossSeries[i])

C5_NetFormula ==
    pc = "done" =>
        \A i \in offsets :
            LET g == grossSeries[i]
                contribution == Mul(g, PREVID_PERCENT)
                base == MathMax(Zero,
                                Sub(Sub(g, contribution),
                                    Mul(Mul(arg.dependents, DEPENDENT_DEDUCTION),
                                        Num(12, 1))))
            IN /\ netSeries[i] = Sub(Sub(g, contribution), Mul(base, IR_FLAT_PERCENT))
               /\ Leq(netSeries[i], Sub(g, contribution))
               /\ \A more \in 1..2 :
                     LET with == [arg EXCEPT !.dependents = Add(@, Num(more, 1))]
                     IN /\ Leq(netSeries[i], netAnnual(with, i - 1))
                        /\ Leq(netAnnual(with, i - 1), Sub(g, contribution))

C5_Witness ==
    /\ pc = "done"
    /\ Less(Zero, arg.dependents)
    /\ \E i \in offsets :
          /\ Less(netSeries[i], Sub(grossSeries[i], Mul(grossSeries[i], PREVID_PERCENT)))
          /\ Less(netSeries[i], netAnnual([arg EXCEPT !.dependents = Add(@, Num(1, 1))], i - 1))

\* C6: with non-negative compensation inputs and all three growth parameters
\* >= 0, grossSeries is non-decreasing.
C6_GrossMonotone ==
    growthNonNegative =>
        \A i \in offsets :
            i + 1 \in offsets => Leq(grossSeries[i], grossSeries[i + 1])

C6_Witness ==
    /\ pc = "done"
    /\ growthNonNegative
    /\ ~growthZero
    /\ Len(grossSeries) >= 3
    /\ Less(grossSeries[1], grossSeries[2])

\* C7: with all three growth parameters 0, every offset has the gross and the
\* net amount of offset 0.
C7_NoGrowth ==
    growthZero =>
        \A i \in offsets :
            /\ grossSeries[i] = grossSeries[1]
            /\ netSeries[i] = netSeries[1]

C7_Witness ==
    /\ pc = "done"
    /\ growthZero
    /\ Len(grossSeries) >= 3
    /\ Less(Zero, grossSeries[1])

----------------------------------------------------------------------------
(* Properties of the scenario collection (checked under Spec) *)

hasDefault(list) == \E i \in DOMAIN list : list[i].id = atual

\* C8: a remove aimed at the default scenario "atual" leaves the collection
\* and the selection as they were, and the collection never loses "atual".
C8_DefaultProtected ==
    /\ hasDefault(scenarios)
    /\ (last.op = "remove" /\ last.id = atual) =>
          /\ scenarios = last.before
          /\ selectedId = last.beforeSel

C8_Witness ==
    /\ last.op = "remove"
    /\ last.id = atual
    /\ Len(scenarios) >= 2
    /\ selectedId # atual

\* C9 (as claimed): removing a non-default scenario by its id removes exactly
\* one entry, the others staying as they were and in the same order.
C9_RemovesExactlyOne ==
    (last.op = "remove" /\ last.id # atual) =>
        /\ Len(scenarios) = Len(last.before) - 1
        /\ \E i \in DOMAIN last.before :
              /\ last.before[i].id = last.id
              /\ scenarios = SubSeq(last.before, 1, i - 1)
                                \o SubSeq(last.before, i + 1, Len(last.before))

\* C10 (as claimed): no two scenarios of the collection share an id.
C10_DistinctIds ==
    \A i, j \in DOMAIN scenarios :
        i # j => scenarios[i].id # scenarios[j].id

\* what the selection must be once the selected scenario is removed
fallbackSelection ==
    IF Len(scenarios) = 0 THEN selectedId = null
    ELSE selectedId = scenarios[1].id

\* C11: after the removal of the selected scenario the selection is the id of
\* the first remaining scenario, or null when none remains; after the removal
\* of another scenario the selection is as before; and the selection is
\* always null or the id of a scenario of the collection.
C11_SelectionFallback ==
    /\ (last.op = "remove" /\ last.id # atual) =>
          IF last.beforeSel = last.id
          THEN fallbackSelection
          ELSE selectedId = last.beforeSel
    /\ \/ selectedId = null
       \/ \E i \in DOMAIN scenarios : scenarios[i].id = selectedId

C11_Witness ==
    /\ last.op = "remove"
    /\ last.id # atual
    /\ last.beforeSel = last.id
    /\ Len(scenarios) >= 2
    /\ selectedId = scenarios[1].id

\* C12: while the page runs, what is stored under the key is the
\* serialization of the collection in memory, parsing it gives that same
\* collection, and a reload of the page comes up with the collection the
\* page had before it.
C12_PersistRoundTrip ==
    status = "running" =>
        /\ stored.kind = "array"
        /\ stored.items = JSONstringify(scenarios)
        /\ JSONparse(stored.items) = scenarios
        /\ (last.op = "startup" /\ last.raw.kind = "array") =>
              /\ JSONstringify(scenarios) = last.raw.items
              /\ last.before # <<>> => scenarios = last.before

C12_Witness ==
    /\ status = "running"
    /\ last.op = "startup"
    /\ Len(scenarios) >= 2
    /\ scenarios = last.before
    /\ \E i \in DOMAIN scenarios : scenarios[i].levelId = "B2"
    /\ scenarios[1].basicAnnualPctReaj = Num(-5, 2)
    /\ stored.items[1][10] =
          <<"basicAnnualPctReaj", [type |-> "number", text |-> <<"-", "2", ".", "5">>]>>
    /\ stored.items[1][7] =
          <<"gepiPointValue", [type |-> "number", text |-> <<"2", "0", ".", "5">>]>>

\* C13 (as claimed): when the page is loaded with the entry absent or
\* unreadable (no entry, an empty text, a read that throws, a text that is
\* not JSON or is not a collection), the page runs with exactly the default
\* scenario "atual", which is selected.
C13_StartupFallsBack ==
    (last.op = "startup"
        /\ last.raw.kind \in {"absent", "denied", "empty", "invalid", "null", "object"}) =>
        /\ status = "running"
        /\ scenarios = <<defaultScenario>>
        /\ selectedId = atual

====
